---- MODULE Spec2Model ----
(***************************************************************************)
(* Model of the two Google Maps review scrapers of this repository:        *)
(*   - the sequential scraper, src/data_collection/google_maps_scraper.py  *)
(*     (GoogleMapsReviewsScraper and its main), and                        *)
(*   - the pooled scraper, src/data_collection/gpu-scraper.py              *)
(*     (GPUOptimizedGoogleMapsScraper.run and its thread pool).            *)
(* The page a browser session renders is the environment: review nodes,    *)
(* agencies and failures are drawn from small sets.                        *)
(***************************************************************************)
EXTENDS Integers, Sequences, FiniteSets, TLC

(***************************************************************************)
(* Bounds of the model.                                                    *)
(***************************************************************************)
MaxBanks == 2
MaxWorkers == 2
MaxNodes == 1
MaxAgencies == 1

(***************************************************************************)
(* Sentinels.  NULL is Python's None / JavaScript's null for a rating;     *)
(* RAISE is "this lookup raised" (no such element, stale element, no       *)
(* digits in the label).                                                   *)
(***************************************************************************)
NULL == -1
RAISE == -2

(***************************************************************************)
(* Texts are sequences of characters; character 0 is white space, any      *)
(* other character is printable.                                           *)
(***************************************************************************)
RECURSIVE LStrip(_)
LStrip(s) == IF s # <<>> /\ Head(s) = 0 THEN LStrip(Tail(s)) ELSE s

RECURSIVE RStrip(_)
RStrip(s) ==
    IF s # <<>> /\ s[Len(s)] = 0 THEN RStrip(SubSeq(s, 1, Len(s) - 1)) ELSE s

\* str.strip() in Python, String.trim() in JavaScript.
Strip(s) == RStrip(LStrip(s))

ShortText == <<1, 0, 1>>
LongText == <<1, 1, 0, 1, 1, 1, 0>>
BlankText == <<0>>

(***************************************************************************)
(* What one text selector finds on a review node: no element, an error     *)
(* raised by the lookup, or an element with its raw text.                  *)
(***************************************************************************)
NoMatch == [kind |-> "nomatch", val |-> <<>>]
Raises == [kind |-> "raise", val |-> <<>>]
Found(t) == [kind |-> "text", val |-> t]

\* What the four text selectors, in declared order, find on a review node.
TextCascades ==
    { <<NoMatch, NoMatch, NoMatch, NoMatch>>,
      <<Found(BlankText), Raises, NoMatch, NoMatch>>,
      <<NoMatch, Found(<<>>), Found(LongText), Found(ShortText)>>,
      <<NoMatch, Found(ShortText), NoMatch, Found(LongText)>>,
      <<Raises, Found(BlankText), NoMatch, Found(ShortText)>> }

(***************************************************************************)
(* A review node as the page renders it.                                   *)
(*   aria  : the number in the aria-label of span[aria-label*='star' i],   *)
(*           RAISE when the element or the number is missing;              *)
(*   stars : the count of filled-star nodes, RAISE when the node is stale; *)
(*   kv    : the number in the aria-label of span.kvMYJc, or RAISE;        *)
(*   texts : what each text selector finds.                                *)
(***************************************************************************)
Nodes ==
    [aria : {RAISE, 0, 7}, stars : {RAISE, 0, 4}, kv : {RAISE, 9},
     texts : TextCascades]

\* Python truthiness of a rating: None and 0 are false.
Truthy(rating) == rating # NULL /\ rating # 0

(***************************************************************************)
(* Sequential scraper, rating: the loop over rating_methods.  A method     *)
(* that raises is skipped; a value is assigned before it is tested, and    *)
(* the loop breaks only on a value in 1..5.                                *)
(***************************************************************************)
RECURSIVE RatingLoop(_, _, _)
RatingLoop(methods, i, rating) ==
    IF i > Len(methods) THEN rating
    ELSE IF methods[i] = RAISE THEN RatingLoop(methods, i + 1, rating)
    ELSE IF Truthy(methods[i]) /\ 1 <= methods[i] /\ methods[i] <= 5
         THEN methods[i]
    ELSE RatingLoop(methods, i + 1, methods[i])

RatingSeq(node) == RatingLoop(<<node.aria, node.stars, node.kv>>, 1, NULL)

(***************************************************************************)
(* Pooled scraper, rating: the script run in the page.  The aria-label     *)
(* number is taken as it is; the star count replaces a null or zero        *)
(* rating when it is positive.                                             *)
(***************************************************************************)
RatingJs(node) ==
    LET r1 == IF node.aria = RAISE THEN NULL ELSE node.aria
    IN  IF ~Truthy(r1) /\ node.stars > 0 THEN node.stars ELSE r1

(***************************************************************************)
(* Sequential scraper, text: the loop over text_selectors.  The text of    *)
(* the first element of a selector is assigned, stripped, and the loop     *)
(* breaks when it is not empty; a selector that raises is skipped.         *)
(***************************************************************************)
RECURSIVE TextLoop(_, _, _)
TextLoop(outs, i, review_text) ==
    IF i > Len(outs) THEN review_text
    ELSE IF outs[i].kind # "text" THEN TextLoop(outs, i + 1, review_text)
    ELSE IF Strip(outs[i].val) # <<>> THEN Strip(outs[i].val)
    ELSE TextLoop(outs, i + 1, Strip(outs[i].val))

\* The text of the last selector, whatever the earlier ones found.
ReviewTextSeqLast(node) ==
    LET last == node.texts[Len(node.texts)]
    IN  IF last.kind = "text" THEN Strip(last.val) ELSE <<>>

ReviewTextSeq(node) == TextLoop(node.texts, 1, <<>>)

(***************************************************************************)
(* Pooled scraper, text: the script run in the page takes the trimmed      *)
(* text of the first selector whose element has a non-blank text.  A       *)
(* lookup that raises makes the whole script raise.                        *)
(***************************************************************************)
RECURSIVE TextJsLoop(_, _)
TextJsLoop(outs, i) ==
    IF i > Len(outs) THEN <<>>
    ELSE IF outs[i].kind = "text" /\ Strip(outs[i].val) # <<>>
         THEN Strip(outs[i].val)
    ELSE TextJsLoop(outs, i + 1)

ReviewTextJs(node) == TextJsLoop(node.texts, 1)

\* The page script of the pooled scraper raises when a lookup in it does.
ScriptRaises(node) ==
    node.stars = RAISE \/ \E i \in 1..Len(node.texts) : node.texts[i].kind = "raise"

(***************************************************************************)
(* The test that decides whether a node becomes a record.                  *)
(***************************************************************************)
KeepReviewSeq(text, rating) == text # <<>> \/ Truthy(rating)

SkipEmptyJsAlways(text, rating) == FALSE

SkipEmptyJs(text, rating) == text = <<>> /\ ~Truthy(rating)

(***************************************************************************)
(* get_reviews on the nodes of one agency page.  A record carries the      *)
(* target it was collected for, the text and the rating.                   *)
(***************************************************************************)
Review(unit, text, rating) ==
    [bank |-> unit[1], city |-> unit[2], text |-> text, rating |-> rating]

\* s[:n]; a negative n counts from the end.
TakeAll(s, n) == s

Take(s, n) ==
    SubSeq(s, 1, IF n < 0 THEN (IF Len(s) + n > 0 THEN Len(s) + n ELSE 0)
                 ELSE IF n < Len(s) THEN n ELSE Len(s))

\* Sequential scraper: the loop "for i, review_element in enumerate(...)".
RECURSIVE ReviewLoopSeq(_, _, _, _)
ReviewLoopSeq(nodes, i, unit, reviews) ==
    IF i > Len(nodes) THEN reviews
    ELSE LET review_text == ReviewTextSeq(nodes[i])
             rating == RatingSeq(nodes[i])
         IN  ReviewLoopSeq(nodes, i + 1, unit,
                 IF KeepReviewSeq(review_text, rating)
                 THEN Append(reviews, Review(unit, review_text, rating))
                 ELSE reviews)

GetReviewsSeq(nodes, max_reviews, unit) ==
    ReviewLoopSeq(Take(nodes, max_reviews), 1, unit, <<>>)

\* Pooled scraper: the loop "for review_element in review_containers[...]".
RECURSIVE ReviewLoopJs(_, _, _, _)
ReviewLoopJs(nodes, i, unit, review_data) ==
    IF i > Len(nodes) THEN review_data
    ELSE LET text == ReviewTextJs(nodes[i])
             rating == RatingJs(nodes[i])
         IN  ReviewLoopJs(nodes, i + 1, unit,
                 IF ScriptRaises(nodes[i]) \/ SkipEmptyJs(text, rating)
                 THEN review_data
                 ELSE Append(review_data, Review(unit, text, rating)))

GetReviewsJs(nodes, max_reviews, unit) ==
    ReviewLoopJs(Take(nodes, max_reviews), 1, unit, <<>>)

\* Default of --max_reviews in each scraper.
MaxReviewsSeq == 20
MaxReviewsPool == 30

RECURSIVE Repeat(_, _)
Repeat(s, n) == IF n = 0 THEN <<>> ELSE s \o Repeat(s, n - 1)

(***************************************************************************)
(* The run.  One variable set serves both scrapers; args.variant says      *)
(* which one runs.                                                         *)
(***************************************************************************)
VARIABLES
    args,         \* the parsed command line
    feed,         \* the review nodes an agency page renders
    pc,           \* where the main thread is
    k,            \* the main thread's loop index
    opened,       \* browser sessions started
    closed,       \* browser sessions quit
    drivers,      \* self.drivers (pooled) or <<self.driver>> (sequential)
    status,       \* per task index: "new", "queued", "running", "done"
    queue,        \* the executor's work queue (pooled)
    result,       \* per task index: what the unit returned
    visited,      \* per task index: agency pages whose reviews were read
    failed,       \* units out of which an error escaped
    all_reviews,  \* the accumulated result set
    files,        \* path -> [st, data]
    writes,       \* <<kind, path>> of every file opened for writing
    interrupt,    \* the pc at which a KeyboardInterrupt was delivered, or "none"
    snapshot,     \* units that had completed when the interrupt was delivered
    late,         \* units started after the interrupt was delivered
    outcome,      \* how the run ended
    finished,     \* the units in the order in which they finished
    gr_pc,        \* one call of search_bank_agencies and get_reviews: where it is
    max_reviews,  \* the max_reviews get_reviews is called with
    names,        \* the search results looked at so far
    agencies,     \* the agencies search_bank_agencies has recorded
    clicks,       \* the names of the search results the click block was run for
    view,         \* what the session shows: the listing or a detail page
    tried,        \* how many activation methods get_reviews has run
    activated,    \* did one of them open the reviews section
    scrolls,      \* per scroll pass of get_reviews: did it load new reviews
    expanded,     \* the expand buttons clicked in the latest scroll pass
    containers,   \* the review nodes of the page, in page order
    seen,         \* the review nodes get_reviews has looked at
    gr_reviews    \* the records get_reviews has built

\* The variables of one search_bank_agencies / get_reviews call.
searchvars == <<names, agencies, clicks, view>>
loadvars == <<tried, activated, scrolls, expanded>>
nodevars == <<containers, seen, gr_reviews>>
pagevars == <<gr_pc, max_reviews, searchvars, loadvars, nodevars>>

\* The variables of the run.
runvars ==
    <<args, feed, pc, k, opened, closed, drivers, status, queue, result,
      visited, failed, all_reviews, files, writes, interrupt, snapshot, late,
      outcome, finished>>

vars == <<runvars, pagevars>>

Paths == {"output", "output_json", "partial"}

\* The file the interruption handler writes: partial_reviews_<timestamp>.json.
PartialTarget == "partial"

NoFile == [st |-> "absent", data |-> <<>>]

\* bank_names x cities, banks outer, cities inner; task indices start at 0.
NumTasks == Len(args.bank_names) * Len(args.cities)

TaskIds == 0..(NumTasks - 1)

Task(i) ==
    <<args.bank_names[(i \div Len(args.cities)) + 1],
      args.cities[(i % Len(args.cities)) + 1]>>

Running == {t \in TaskIds : status[t] = "running"}

\* self.drivers[driver_index % len(self.drivers)]
DriverOf(t) == drivers[(t % Len(drivers)) + 1]

Min(a, b) == IF a < b THEN a ELSE b

\* ThreadPoolExecutor(max_workers=min(self.max_workers, len(tasks)))
ExecutorWorkers == Min(args.max_workers, NumTasks)

(***************************************************************************)
(* Initial states: the command line and the page.  '--banks ""' parses to  *)
(* the one-element list [''], modelled as <<0>>.                           *)
(***************************************************************************)
NameLists(n) == {<<0>>} \cup {[i \in 1..m |-> i] : m \in 1..n}

Feeds(n) == UNION {[1..m -> Nodes] : m \in 0..n}

\* A node with a text and a rating that both scrapers read.
GoodNode ==
    [aria |-> RAISE, stars |-> 4, kv |-> RAISE,
     texts |-> <<NoMatch, Found(<<>>), Found(LongText), Found(ShortText)>>]

\* In the specifications of the run the page-level variables stay idle.
PageIdle ==
    /\ gr_pc = "idle"
    /\ max_reviews = IF args.variant = "seq" THEN MaxReviewsSeq ELSE MaxReviewsPool
    /\ names = <<>>
    /\ agencies = <<>>
    /\ clicks = <<>>
    /\ view = "listing"
    /\ tried = 0
    /\ activated = FALSE
    /\ scrolls = <<>>
    /\ expanded = 0
    /\ containers = <<>>
    /\ seen = <<>>
    /\ gr_reviews = <<>>

InitWith(banks, cities, workers, feeds) ==
    /\ args \in [variant : {"seq", "pool"}, output : {"json", "csv", "other"},
                 bank_names : banks, cities : cities,
                 max_workers : workers, use_gpu : BOOLEAN]
    /\ args.variant = "seq" => args.max_workers = 1 /\ ~args.use_gpu
    /\ feed \in feeds
    /\ pc = "setup"
    /\ k = 0
    /\ opened = {}
    /\ closed = {}
    /\ drivers = <<>>
    /\ status = [t \in TaskIds |-> "new"]
    /\ queue = <<>>
    /\ result = [t \in TaskIds |-> <<>>]
    /\ visited = [t \in TaskIds |-> 0]
    /\ failed = {}
    /\ all_reviews = <<>>
    /\ files = [p \in Paths |-> NoFile]
    /\ writes = {}
    /\ interrupt = "none"
    /\ snapshot = {}
    /\ late = {}
    /\ outcome = "running"
    /\ finished = <<>>

\* The runs of the orchestration: up to MaxBanks targets in one city, up to
\* MaxWorkers workers, every agency page rendering one good review.
Init ==
    /\ InitWith(NameLists(MaxBanks), {<<1>>}, 1..MaxWorkers, {<<GoodNode>>})
    /\ PageIdle

\* The runs of the extraction: one target, every feed of up to MaxNodes nodes.
InitData ==
    /\ InitWith({<<1>>}, {<<1>>}, {1}, Feeds(MaxNodes))
    /\ PageIdle

IsSeq == args.variant = "seq"
IsPool == args.variant = "pool"

\* The interrupt reached the code that runs the units (it was not swallowed).
Delivered == interrupt \notin {"none", "swallowed"}

\* The next session identifier.
NewSession == Cardinality(opened) + 1

\* What a unit returns after the reviews of a agency pages were read.
UnitReviews(t, a) ==
    Repeat(IF IsSeq THEN GetReviewsSeq(feed, max_reviews, Task(t))
                    ELSE GetReviewsJs(feed, max_reviews, Task(t)), a)

Written(data) == [st |-> "written", data |-> data]
Truncated == [st |-> "truncated", data |-> <<>>]

(***************************************************************************)
(* Sequential scraper: GoogleMapsReviewsScraper.__init__ and main.         *)
(***************************************************************************)
\* webdriver.Chrome(options=options): a failure is reported and exit(1).
SeqSetupChrome ==
    /\ IsSeq /\ pc = "setup"
    /\ \/ /\ opened' = opened \cup {NewSession}
          /\ drivers' = <<NewSession>>
          /\ pc' = "setup_wait"
          /\ UNCHANGED outcome
       \/ /\ pc' = "done"
          /\ outcome' = "setup_failed"
          /\ UNCHANGED <<opened, drivers>>
    /\ UNCHANGED <<pagevars, finished, args, feed, k, closed, status, queue, result, visited,
                   failed, all_reviews, files, writes, interrupt, snapshot,
                   late>>

\* self.driver.implicitly_wait(10), in the same try block: exit(1) on failure.
SeqSetupWait ==
    /\ IsSeq /\ pc = "setup_wait"
    /\ \/ pc' = "units" /\ UNCHANGED outcome
       \/ pc' = "done" /\ outcome' = "setup_failed"
    /\ UNCHANGED <<pagevars, finished, args, feed, k, opened, closed, drivers, status, queue,
                   result, visited, failed, all_reviews, files, writes,
                   interrupt, snapshot, late>>

\* One pass of "for bank_name ... for city ...": search_bank_agencies, then
\* get_reviews and all_reviews.extend for each agency.  An error that escapes
\* the loop body lands in main's "except Exception".
SeqUnit ==
    /\ IsSeq /\ pc = "units" /\ k < NumTasks
    /\ \E a \in 0..MaxAgencies, escaped \in BOOLEAN :
          /\ result' = [result EXCEPT ![k] = UnitReviews(k, a)]
          /\ visited' = [visited EXCEPT ![k] = a]
          /\ all_reviews' = all_reviews \o UnitReviews(k, a)
          /\ IF escaped
             THEN /\ failed' = failed \cup {k}
                  /\ UNCHANGED finished
                  /\ pc' = "error"
                  /\ UNCHANGED <<k, status>>
             ELSE /\ status' = [status EXCEPT ![k] = "done"]
                  /\ finished' = Append(finished, k)
                  /\ k' = k + 1
                  /\ UNCHANGED <<failed, pc>>
    /\ late' = IF Delivered THEN late \cup {k} ELSE late
    /\ UNCHANGED <<pagevars, args, feed, opened, closed, drivers, queue, files, writes,
                   interrupt, snapshot, outcome>>

\* After the loops: the extension of the output path is looked at only here.
SeqSaveOpen ==
    /\ IsSeq /\ pc = "units" /\ k = NumTasks
    /\ \/ /\ args.output \in {"json", "csv"}
          /\ files' = [files EXCEPT !["output"] = Truncated]
          /\ writes' = writes \cup {<<"full", "output">>}
          /\ pc' = "dump"
          /\ UNCHANGED outcome
       \/ /\ args.output \in {"json", "csv"}
          /\ pc' = "error"
          /\ UNCHANGED <<files, writes, outcome>>
       \/ /\ args.output = "other"
          /\ pc' = "close"
          /\ outcome' = "unsupported_format"
          /\ UNCHANGED <<files, writes>>
    /\ UNCHANGED <<pagevars, finished, args, feed, k, opened, closed, drivers, status, queue,
                   result, visited, failed, all_reviews, interrupt, snapshot,
                   late>>

(***************************************************************************)
(* Pooled scraper: GPUOptimizedGoogleMapsScraper.run.                      *)
(***************************************************************************)
\* One pass of the loop of _initialize_drivers: _setup_webdriver either
\* returns a driver, fails before the browser started, or fails after it
\* (set_page_load_timeout, set_script_timeout, implicitly_wait).
PoolSetupDriver ==
    /\ IsPool /\ pc = "setup" /\ k < args.max_workers
    /\ \/ /\ opened' = opened \cup {NewSession}
          /\ drivers' = Append(drivers, NewSession)
       \/ UNCHANGED <<opened, drivers>>
       \/ /\ opened' = opened \cup {NewSession}
          /\ UNCHANGED drivers
    /\ k' = k + 1
    /\ UNCHANGED <<pagevars, finished, args, feed, pc, closed, status, queue, result, visited,
                   failed, all_reviews, files, writes, interrupt, snapshot,
                   late, outcome>>

\* "if not self.drivers: raise", outside the try block of run.
PoolSetupDone ==
    /\ IsPool /\ pc = "setup" /\ k = args.max_workers
    /\ IF drivers = <<>>
       THEN pc' = "done" /\ outcome' = "setup_failed"
       ELSE pc' = "submit" /\ UNCHANGED outcome
    /\ k' = 0
    /\ UNCHANGED <<pagevars, finished, args, feed, opened, closed, drivers, status, queue, result,
                   visited, failed, all_reviews, files, writes, interrupt,
                   snapshot, late>>

\* executor.submit(self.process_bank_city, bank, city, max_reviews, idx)
PoolSubmit ==
    /\ IsPool /\ pc = "submit"
    /\ IF k < NumTasks
       THEN /\ status' = [status EXCEPT ![k] = "queued"]
            /\ queue' = Append(queue, k)
            /\ k' = k + 1
            /\ UNCHANGED pc
       ELSE /\ pc' = "collect"
            /\ k' = 0
            /\ UNCHANGED <<status, queue>>
    /\ UNCHANGED <<pagevars, finished, args, feed, opened, closed, drivers, result, visited,
                   failed, all_reviews, files, writes, interrupt, snapshot,
                   late, outcome>>

\* A worker thread takes the next work item; the executor runs at most
\* ExecutorWorkers of them at a time.
PoolStartTask ==
    /\ IsPool /\ queue # <<>>
    /\ Cardinality(Running) < ExecutorWorkers
    /\ status' = [status EXCEPT ![Head(queue)] = "running"]
    /\ queue' = Tail(queue)
    /\ late' = IF Delivered THEN late \cup {Head(queue)} ELSE late
    /\ UNCHANGED <<pagevars, finished, args, feed, pc, k, opened, closed, drivers, result,
                   visited, failed, all_reviews, files, writes, interrupt,
                   snapshot, outcome>>

\* process_bank_city returns: an error that escapes the loop over the
\* agencies is caught there, and what was collected so far is returned.
PoolFinishTask ==
    /\ IsPool
    /\ \E t \in Running, a \in 0..MaxAgencies, escaped \in BOOLEAN :
          /\ result' = [result EXCEPT ![t] = UnitReviews(t, a)]
          /\ visited' = [visited EXCEPT ![t] = a]
          /\ status' = [status EXCEPT ![t] = "done"]
          /\ finished' = Append(finished, t)
          /\ failed' = IF escaped THEN failed \cup {t} ELSE failed
    /\ UNCHANGED <<pagevars, args, feed, pc, k, opened, closed, drivers, queue,
                   all_reviews, files, writes, interrupt, snapshot, late,
                   outcome>>

\* The list with the items added twice.
ExtendTwice(list, items) == list \o items \o items

\* The list with the items put in front.
ExtendFront(list, items) == items \o list

\* all_reviews.extend(reviews), in the main thread.
Extend(list, items) == list \o items

\* "for future in future_to_task": future.result() waits for the unit, then
\* all_reviews.extend(reviews).  After the last one the executor shuts down.
PoolCollect ==
    /\ IsPool /\ pc = "collect"
    /\ IF k < NumTasks
       THEN /\ status[k] = "done"
            /\ all_reviews' = Extend(all_reviews, result[k])
            /\ k' = k + 1
            /\ UNCHANGED pc
       ELSE /\ pc' = "post"
            /\ UNCHANGED <<k, all_reviews>>
    /\ UNCHANGED <<pagevars, finished, args, feed, opened, closed, drivers, status, queue, result,
                   visited, failed, files, writes, interrupt, snapshot, late,
                   outcome>>

\* gdf[gdf['text'].str.len() > 5]
RECURSIVE GpuFilter(_)
GpuFilter(reviews) ==
    IF reviews = <<>> THEN <<>>
    ELSE IF Len(Head(reviews).text) > 5
         THEN <<Head(reviews)>> \o GpuFilter(Tail(reviews))
    ELSE GpuFilter(Tail(reviews))

\* A rating column that holds a null is a float column: the nulls read back
\* as NaN and the integer n as the float n, written 100 + n.
NaN == -3

AsFloat(v) == IF v = NULL \/ v = NaN THEN NaN ELSE IF v >= 100 THEN v ELSE 100 + v

\* cudf.DataFrame(all_reviews) ... gdf.to_pandas().to_dict('records'): the
\* values of the rating column after the round trip.
FrameRoundTrip(records) ==
    IF \E i \in 1..Len(records) : AsFloat(records[i].rating) = records[i].rating
                                      \/ records[i].rating = NULL
    THEN [i \in 1..Len(records) |->
             [records[i] EXCEPT !.rating = AsFloat(records[i].rating)]]
    ELSE records

\* A processing step that cuts the last character off every text.
GpuProcessTrim(records) ==
    [i \in 1..Len(records) |->
        [records[i] EXCEPT !.text = SubSeq(@, 1, Len(@) - 1)]]

\* The dataframe processing of run(): into a dataframe, the filter, and back.
GpuProcess(records) == GpuFilter(FrameRoundTrip(records))

\* What run() does to the accumulated records before it saves them.
PostProcess(records) == IF args.use_gpu THEN GpuProcess(records) ELSE records

\* "if all_reviews:" with the dataframe filter when cuDF is there (an error
\* in it is logged and the list kept), "else:" only a warning.
PoolPost ==
    /\ IsPool /\ pc = "post"
    /\ IF all_reviews = <<>>
       THEN /\ pc' = "close"
            /\ outcome' = "completed"
            /\ UNCHANGED all_reviews
       ELSE /\ pc' = "save"
            /\ UNCHANGED outcome
            /\ \/ all_reviews' = PostProcess(all_reviews)
               \/ args.use_gpu /\ UNCHANGED all_reviews
    /\ UNCHANGED <<pagevars, finished, args, feed, k, opened, closed, drivers, status, queue,
                   result, visited, failed, files, writes, interrupt,
                   snapshot, late>>

\* The path run() saves to: an unrecognized extension gets ".json" appended.
PoolSaveTarget == IF args.output \in {"json", "csv"} THEN "output" ELSE "output_json"

PoolSaveOpen ==
    /\ IsPool /\ pc = "save"
    /\ \/ /\ files' = [files EXCEPT ![PoolSaveTarget] = Truncated]
          /\ writes' = writes \cup {<<"full", PoolSaveTarget>>}
          /\ pc' = "dump"
       \/ /\ pc' = "error"
          /\ UNCHANGED <<files, writes>>
    /\ UNCHANGED <<pagevars, finished, args, feed, k, opened, closed, drivers, status, queue,
                   result, visited, failed, all_reviews, interrupt, snapshot,
                   late, outcome>>

(***************************************************************************)
(* Both scrapers: the end of save_to_json / save_to_csv, the handlers of   *)
(* the try block, and close().                                             *)
(***************************************************************************)
SaveTarget == IF IsSeq THEN "output" ELSE PoolSaveTarget

SaveDump ==
    /\ pc = "dump"
    /\ files' = [files EXCEPT ![SaveTarget] = Written(all_reviews)]
    /\ pc' = "close"
    /\ outcome' = "completed"
    /\ UNCHANGED <<pagevars, finished, args, feed, k, opened, closed, drivers, status, queue,
                   result, visited, failed, all_reviews, writes, interrupt,
                   snapshot, late>>

\* "except KeyboardInterrupt": the partial file is written "if all_reviews:".
InterruptHandler ==
    /\ pc = "handler"
    /\ IF all_reviews # <<>>
       THEN /\ files' = [files EXCEPT ![PartialTarget] = Written(all_reviews)]
            /\ writes' = writes \cup {<<"partial", PartialTarget>>}
       ELSE UNCHANGED <<files, writes>>
    /\ pc' = "close"
    /\ outcome' = "interrupted"
    /\ UNCHANGED <<pagevars, finished, args, feed, k, opened, closed, drivers, status, queue,
                   result, visited, failed, all_reviews, interrupt, snapshot,
                   late>>

\* "except Exception": the error is logged and printed.
ErrorHandler ==
    /\ pc = "error"
    /\ pc' = "close"
    /\ outcome' = "error"
    /\ UNCHANGED <<pagevars, finished, args, feed, k, opened, closed, drivers, status, queue,
                   result, visited, failed, all_reviews, files, writes,
                   interrupt, snapshot, late>>

\* "finally: scraper.close()": quit every driver the scraper holds.
Close ==
    /\ pc = "close"
    /\ closed' = closed \cup {drivers[i] : i \in 1..Len(drivers)}
    /\ pc' = "done"
    /\ UNCHANGED <<pagevars, finished, args, feed, k, opened, drivers, status, queue, result,
                   visited, failed, all_reviews, files, writes, interrupt,
                   snapshot, late, outcome>>

\* The exit status of the process for each way the run can end.  main
\* returns after the handlers of its try block, so the interpreter exits with
\* 0; only a failed set-up ends with 1 (exit(1) in the sequential scraper, the
\* uncaught exception of _initialize_drivers in the pooled one), and a
\* KeyboardInterrupt nothing catches with 130.
ExitStatus(end) ==
    IF end = "setup_failed" THEN 1
    ELSE IF end = "killed" THEN 130
    ELSE 0

(***************************************************************************)
(* KeyboardInterrupt, raised in the main thread, once per run.             *)
(***************************************************************************)
Done == {t \in TaskIds : status[t] = "done"}

\* Before the try block (the scraper's construction, _initialize_drivers)
\* nothing catches it.
InterruptInSetup ==
    /\ interrupt = "none"
    /\ pc \in {"setup", "setup_wait"}
    /\ interrupt' = pc
    /\ snapshot' = Done
    /\ pc' = "done"
    /\ outcome' = "killed"
    /\ UNCHANGED <<pagevars, finished, args, feed, k, opened, closed, drivers, status, queue,
                   result, visited, failed, all_reviews, files, writes, late>>

\* Sequential scraper, inside the loops: the interrupt ends the unit under
\* way after the reviews of a of its agencies were added.
SeqInterruptInUnits ==
    /\ IsSeq /\ interrupt = "none"
    /\ pc = "units" /\ k < NumTasks
    /\ \E a \in 0..MaxAgencies :
          /\ all_reviews' = all_reviews \o UnitReviews(k, a)
          /\ visited' = [visited EXCEPT ![k] = a]
    /\ interrupt' = pc
    /\ snapshot' = Done
    /\ pc' = "handler"
    /\ UNCHANGED <<pagevars, finished, args, feed, k, opened, closed, drivers, status, queue,
                   result, failed, files, writes, late, outcome>>

\* Sequential scraper: an interrupt raised inside one of the bare "except:"
\* blocks of get_reviews is swallowed there, and the run goes on.
SeqInterruptSwallowed ==
    /\ IsSeq /\ interrupt = "none"
    /\ pc = "units" /\ k < NumTasks
    /\ interrupt' = "swallowed"
    /\ snapshot' = Done
    /\ UNCHANGED <<pagevars, finished, args, feed, pc, k, opened, closed, drivers, status, queue,
                   result, visited, failed, all_reviews, files, writes, late,
                   outcome>>

\* Pooled scraper, inside "with ThreadPoolExecutor(...)": the block's exit
\* runs executor.shutdown(wait=True) before the handler.
PoolInterruptInExecutor ==
    /\ IsPool /\ interrupt = "none"
    /\ pc \in {"submit", "collect"}
    /\ interrupt' = pc
    /\ snapshot' = Done
    /\ pc' = "shutdown"
    /\ UNCHANGED <<pagevars, finished, args, feed, k, opened, closed, drivers, status, queue,
                   result, visited, failed, all_reviews, files, writes, late,
                   outcome>>

\* shutdown(wait=True) returns when every submitted work item has run.
PoolShutdown ==
    /\ IsPool /\ pc = "shutdown"
    /\ queue = <<>> /\ Running = {}
    /\ pc' = "handler"
    /\ UNCHANGED <<pagevars, finished, args, feed, k, opened, closed, drivers, status, queue,
                   result, visited, failed, all_reviews, files, writes,
                   interrupt, snapshot, late, outcome>>

\* After the loops, while the results are filtered and saved.
InterruptInSave ==
    /\ interrupt = "none"
    /\ \/ pc \in {"post", "save", "dump"}
       \/ IsSeq /\ pc = "units" /\ k = NumTasks
    /\ interrupt' = pc
    /\ snapshot' = Done
    /\ pc' = "handler"
    /\ UNCHANGED <<pagevars, finished, args, feed, k, opened, closed, drivers, status, queue,
                   result, visited, failed, all_reviews, files, writes, late,
                   outcome>>

Next ==
    \/ SeqSetupChrome
    \/ SeqSetupWait
    \/ SeqUnit
    \/ SeqSaveOpen
    \/ PoolSetupDriver
    \/ PoolSetupDone
    \/ PoolSubmit
    \/ PoolStartTask
    \/ PoolFinishTask
    \/ PoolCollect
    \/ PoolPost
    \/ PoolSaveOpen
    \/ SaveDump
    \/ InterruptHandler
    \/ ErrorHandler
    \/ Close
    \/ InterruptInSetup
    \/ SeqInterruptInUnits
    \/ SeqInterruptSwallowed
    \/ PoolInterruptInExecutor
    \/ PoolShutdown
    \/ InterruptInSave

Spec == Init /\ [][Next]_vars

SpecData == InitData /\ [][Next]_vars

(***************************************************************************)
(* One call of search_bank_agencies followed by get_reviews on one of the  *)
(* agencies it recorded.  The page is the environment: each search result, *)
(* each activation method, each scroll pass and the list of review nodes   *)
(* is drawn when the code looks at it.                                     *)
(***************************************************************************)
MaxCands == 2
MaxButtons == 6
MaxPageNodes == 2

\* Characters: 0 is the space, 1..26 are the letters a..z, 101..126 the
\* letters A..Z, 200..209 the digits, 99 any other character.
Lower(c) == IF c > 100 /\ c <= 126 THEN c - 100 ELSE c

\* str.lower()
LowerStr(s) == [i \in 1..Len(s) |-> Lower(s[i])]

\* "sub in s" for two strings.
Contains(sub, s) ==
    \E i \in 0..(Len(s) - Len(sub)) : SubSeq(s, i + 1, i + Len(sub)) = sub

\* "bank", "banque", "atm", "agence"
Keywords ==
    << <<2, 1, 14, 11>>, <<2, 1, 14, 17, 21, 5>>, <<1, 20, 13>>,
       <<1, 7, 5, 14, 3, 5>> >>

\* The bank names of the command line as strings: '', 'CIH', 'bmce'.
BankString(b) ==
    IF b = 0 THEN <<>> ELSE IF b = 1 THEN <<103, 109, 108>> ELSE <<2, 13, 3, 5>>

\* The city names of the command line as strings: 'Rabat', 'Fes'.
CityString(c) == IF c = 1 THEN <<118, 1, 2, 1, 20>> ELSE <<106, 5, 19>>

\* The names search results carry: 'cih', 'Bmce', 'Banque', 'ATM', 'cafe'.
CandidateNames ==
    { <<3, 9, 8>>, <<102, 13, 3, 5>>, <<102, 1, 14, 17, 21, 5>>,
      <<101, 120, 113>>, <<3, 1, 6, 5>> }

\* 'Banque'
Banque == <<102, 1, 14, 17, 21, 5>>

\* The texts a location element carries: 'rue', 'av' with white space.
LocA == <<18, 21, 5>>
LocB == <<0, 1, 22>>

\* What the two location selectors, in declared order, find on a result.
LocCascades == [1..2 -> {Found(LocA), Found(LocB), Found(BlankText), NoMatch}]

LocsPlain == <<Found(LocA), NoMatch>>

\* How the steps after the name test go for a search result: the first click,
\* the second click (the other way of clicking), the reading of current_url
\* and driver.back().  "blocked" is ElementClickInterceptedException or
\* StaleElementReferenceException, "error" any other WebDriverException.
StepsOk == [click |-> "ok", second |-> "ok", url |-> "ok", back |-> "ok"]

Fates ==
    { StepsOk,
      [StepsOk EXCEPT !.click = "blocked"],
      [StepsOk EXCEPT !.click = "error"],
      [StepsOk EXCEPT !.click = "blocked", !.second = "error"],
      [StepsOk EXCEPT !.click = "error", !.second = "error"],
      [StepsOk EXCEPT !.url = "error"],
      [StepsOk EXCEPT !.click = "blocked", !.url = "error"],
      [StepsOk EXCEPT !.back = "error"],
      [StepsOk EXCEPT !.back = "blocked"] }

\* A search result at index i: the list may have shrunk below i (present is
\* FALSE); the lookup of its name finds a text or raises; its location
\* elements; how its steps go.
Candidates ==
    { [present |-> FALSE, name |-> NoMatch, locs |-> LocsPlain, steps |-> StepsOk],
      [present |-> TRUE, name |-> Raises, locs |-> LocsPlain, steps |-> StepsOk] }
    \cup { [present |-> TRUE, name |-> Found(n), locs |-> LocsPlain,
            steps |-> StepsOk] : n \in CandidateNames }
    \cup { [present |-> TRUE, name |-> Found(Banque), locs |-> l,
            steps |-> StepsOk] : l \in LocCascades }
    \cup { [present |-> TRUE, name |-> Found(Banque), locs |-> LocsPlain,
            steps |-> f] : f \in Fates }

\* any(term.lower() in name.lower() for term in [bank_name.lower(), "bank",
\* "banque", "atm", "agence"])
IsBankAgencyAlways(name, bank_name) == TRUE

IsBankAgency(name, bank_name) ==
    \E i \in 1..(Len(Keywords) + 1) :
        Contains(LowerStr((<<LowerStr(bank_name)>> \o Keywords)[i]), LowerStr(name))

\* The target of the call.
bank_name == BankString(args.bank_names[1])
city == CityString(args.cities[1])

\* f"{city}, Morocco"
DefaultLocation == city \o <<99, 0, 113, 15, 18, 15, 3, 3, 15>>

\* Sequential scraper: the text of the element of the first selector; the
\* second selector only when the first raised NoSuchElementException, the
\* default only when the second did too.
LocationSeq(locs) ==
    IF locs[1].kind = "text" THEN Strip(locs[1].val)
    ELSE IF locs[2].kind = "text" THEN Strip(locs[2].val)
    ELSE DefaultLocation

\* Pooled scraper: one find_elements with both selectors;
\* "location = loc_elements[0].text.strip() or location".
LocationJs(locs) ==
    LET IsElement(out) == out.kind = "text"
        loc_elements == SelectSeq(locs, IsElement)
    IN  IF loc_elements # <<>> /\ Strip(loc_elements[1].val) # <<>>
        THEN Strip(loc_elements[1].val)
        ELSE DefaultLocation

\* Sequential scraper, the fallback after an intercepted click or a stale
\* reference: the scripted click, current_url, agencies.append, back; any
\* exception ends it.  n counts the appends of this result, v is the view.
FallbackSeq(steps, n, v) ==
    IF steps.second # "ok" THEN [added |-> n, view |-> v]
    ELSE IF steps.url # "ok" THEN [added |-> n, view |-> "detail"]
    ELSE [added |-> n + 1,
          view |-> IF steps.back = "ok" THEN "listing" ELSE "detail"]

\* Sequential scraper: ActionChains click, current_url, agencies.append,
\* back, all in one try; "blocked" anywhere in it enters the fallback, any
\* other exception goes to the handler of the loop body.
ClickSeq(steps, v) ==
    IF steps.click = "error" THEN [added |-> 0, view |-> v]
    ELSE IF steps.click = "blocked" THEN FallbackSeq(steps, 0, v)
    ELSE IF steps.url # "ok" THEN [added |-> 0, view |-> "detail"]
    ELSE IF steps.back = "ok" THEN [added |-> 1, view |-> "listing"]
    ELSE IF steps.back = "blocked" THEN FallbackSeq(steps, 1, "detail")
    ELSE [added |-> 1, view |-> "detail"]

\* Pooled scraper: scripted click, else ActionChains click, else continue;
\* then current_url, agencies.append, back, with any exception going to the
\* handler of the loop body.
ClickJs(steps, v) ==
    IF steps.click # "ok" /\ steps.second # "ok" THEN [added |-> 0, view |-> v]
    ELSE IF steps.url # "ok" THEN [added |-> 0, view |-> "detail"]
    ELSE [added |-> 1,
          view |-> IF steps.back = "ok" THEN "listing" ELSE "detail"]

\* agencies.append(agency), as often as the code reached it for one result.
AcceptOrForget(list, agency, n) ==
    IF n = 0 THEN <<>> ELSE list \o Repeat(<<agency>>, n)

Accept(list, agency, n) == list \o Repeat(<<agency>>, n)

\* max_agencies = min(len(agency_elements), 10), 8 in the pooled scraper.
CandidateCapSeq == 10
CandidateCapPool == 8

max_agencies == Min(MaxCands, IF IsSeq THEN CandidateCapSeq ELSE CandidateCapPool)

\* One pass of "for i in range(max_agencies)": a result that is gone, whose
\* name lookup raises or whose name fails the test is passed over; the
\* others get a location and are clicked.
SearchCandidate ==
    /\ gr_pc = "search" /\ Len(names) < max_agencies
    /\ \E cand \in Candidates :
          /\ names' = Append(names, cand)
          /\ IF cand.present /\ cand.name.kind = "text"
                  /\ IsBankAgency(Strip(cand.name.val), bank_name)
             THEN LET name == Strip(cand.name.val)
                      agency == [name |-> name,
                                 location |-> IF IsSeq THEN LocationSeq(cand.locs)
                                                       ELSE LocationJs(cand.locs)]
                      out == IF IsSeq THEN ClickSeq(cand.steps, view)
                                      ELSE ClickJs(cand.steps, view)
                  IN  /\ clicks' = Append(clicks, name)
                      /\ agencies' = Accept(agencies, agency, out.added)
                      /\ view' = out.view
             ELSE UNCHANGED <<clicks, agencies, view>>
    /\ UNCHANGED <<gr_pc, max_reviews, loadvars, nodevars, runvars>>

\* "return agencies"; the caller then calls get_reviews for each agency, here
\* for one of them (driver.get(agency["url"])), and the locals of the search
\* are gone.
SearchReturn ==
    /\ gr_pc = "search" /\ Len(names) = max_agencies
    /\ IF agencies = <<>>
       THEN gr_pc' = "returned" /\ UNCHANGED <<names, agencies, clicks, view>>
       ELSE /\ gr_pc' = "activate"
            /\ \E i \in 1..Len(agencies) : agencies' = <<agencies[i]>>
            /\ names' = <<>>
            /\ clicks' = <<>>
            /\ view' = "detail"
    /\ UNCHANGED <<max_reviews, loadvars, nodevars, runvars>>

(***************************************************************************)
(* get_reviews: opening the reviews section.                               *)
(***************************************************************************)
\* What one activation method meets: it opens the section, it finds nothing
\* to act on, or it raises.
Outcomes == {"opened", "absent", "raised"}

MethodsSeq == 4
MethodsJs == 3

Methods == IF IsSeq THEN MethodsSeq ELSE MethodsJs

\* Sequential scraper: found_reviews_section is set by the method that found
\* its element and acted on it; each later method runs "if not
\* found_reviews_section".  The number of methods that run.
TriedSeq(outs) ==
    LET S == {i \in 1..MethodsSeq : outs[i] = "opened"}
    IN  IF S = {} THEN MethodsSeq ELSE CHOOSE i \in S : \A j \in S : i <= j

\* Pooled scraper: review_section_found = True follows each execute_script
\* that did not raise; the value the script returns is not looked at.
TriedJs(outs) ==
    LET S == {i \in 1..MethodsJs : outs[i] # "raised"}
    IN  IF S = {} THEN MethodsJs ELSE CHOOSE i \in S : \A j \in S : i <= j

\* The sequential scraper returns [] when no method set the flag; the pooled
\* scraper goes on in every case.
Activate ==
    /\ gr_pc = "activate"
    /\ \E outs \in [1..Methods -> Outcomes] :
          /\ tried' = IF IsSeq THEN TriedSeq(outs) ELSE TriedJs(outs)
          /\ activated' = (outs[tried'] = "opened")
          /\ gr_pc' = IF IsSeq /\ ~activated' THEN "returned" ELSE "scroll"
    /\ UNCHANGED <<max_reviews, searchvars, scrolls, expanded, nodevars, runvars>>

(***************************************************************************)
(* get_reviews: loading reviews.                                           *)
(***************************************************************************)
Max(a, b) == IF a > b THEN a ELSE b

\* Sequential scraper: range(min(15, max(1, max_reviews // 3)))
ScrollPassesFor(m) == Min(15, Max(1, m \div 3))

ScrollPassesSeq == ScrollPassesFor(max_reviews)

\* Pooled scraper: "for (var i = 0; i < 6; i++)" in scroll_script.
ScrollPassesJs == 6

ScrollPasses == IF IsSeq THEN ScrollPassesSeq ELSE ScrollPassesJs

\* "for btn in more_buttons[:5]": the buttons that get clicked in one pass.
ExpandClicksAll(buttons) == buttons

ExpandClicks(buttons) == Min(5, buttons)

\* Sequential scraper: one pass of the scroll loop.  Nothing in the pass
\* looks at the number of reviews the page holds.
ScrollSeq ==
    /\ IsSeq /\ gr_pc = "scroll" /\ Len(scrolls) < ScrollPassesSeq
    /\ \E grew \in BOOLEAN, buttons \in {0, MaxButtons} :
          /\ scrolls' = Append(scrolls, grew)
          /\ expanded' = ExpandClicks(buttons)
    /\ UNCHANGED <<gr_pc, max_reviews, searchvars, tried, activated, nodevars,
                   runvars>>

\* Pooled scraper: scroll_script runs all its passes in one execute_script.
ScrollJs ==
    /\ IsPool /\ gr_pc = "scroll" /\ scrolls = <<>>
    /\ scrolls' \in [1..ScrollPassesJs -> BOOLEAN]
    /\ UNCHANGED <<gr_pc, max_reviews, searchvars, tried, activated, expanded,
                   nodevars, runvars>>

\* The scroll loop is over, or no scrollable container was found.
ScrollEnd ==
    /\ gr_pc = "scroll"
    /\ scrolls = <<>> \/ Len(scrolls) = ScrollPasses
    /\ gr_pc' = "extract"
    /\ UNCHANGED <<max_reviews, searchvars, loadvars, nodevars, runvars>>

(***************************************************************************)
(* get_reviews, one review node: the date, the language and the record.    *)
(***************************************************************************)
IsDigit(c) == c >= 200 /\ c <= 209

RECURSIVE DigitsRun(_, _, _)
DigitsRun(s, i, acc) ==
    IF i > Len(s) \/ ~IsDigit(s[i]) THEN acc
    ELSE DigitsRun(s, i + 1, acc * 10 + (s[i] - 200))

\* int(re.search(r'(\d+)', date_text).group(1)); RAISE when there is no digit.
FirstNumber(s) ==
    LET D == {i \in 1..Len(s) : IsDigit(s[i])}
    IN  IF D = {} THEN RAISE
        ELSE DigitsRun(s, CHOOSE i \in D : \A j \in D : i <= j, 0)

Week == <<23, 5, 5, 11>>
Semaine == <<19, 5, 13, 1, 9, 14, 5>>
Month == <<13, 15, 14, 20, 8>>
Mois == <<13, 15, 9, 19>>
Year == <<25, 5, 1, 18>>
An == <<1, 14>>
Day == <<4, 1, 25>>
Jour == <<10, 15, 21, 18>>
Today == <<20, 15, 4, 1, 25>>

\* The if / elif chain on date_text.lower(): the number of days to go back,
\* NULL when no branch is taken, RAISE when the branch finds no number.
RelativeDays(date_text) ==
    LET low == LowerStr(date_text)
        n == FirstNumber(date_text)
        Times(f) == IF n = RAISE THEN RAISE ELSE f * n
    IN  IF Contains(Week, low) \/ Contains(Semaine, low) THEN Times(7)
        ELSE IF Contains(Month, low) \/ Contains(Mois, low) THEN Times(30)
        ELSE IF Contains(Year, low) \/ Contains(An, low) THEN Times(365)
        ELSE IF Contains(Day, low) \/ Contains(Jour, low) \/ Contains(Today, low)
             THEN IF Contains(Today, low) THEN 0 ELSE Times(1)
        ELSE NULL

\* datetime.now(), as a day number.
RunDay == 20000

\* The loop over date_selectors: a selector without element, with an empty
\* text or whose branch raises leaves review_date alone and goes on; the
\* first other one ends the loop.
RECURSIVE DateLoop(_, _, _)
DateLoop(outs, i, review_date) ==
    IF i > Len(outs) THEN review_date
    ELSE IF outs[i].kind # "text" \/ Strip(outs[i].val) = <<>>
         THEN DateLoop(outs, i + 1, review_date)
    ELSE LET days == RelativeDays(Strip(outs[i].val))
         IN  IF days = RAISE THEN DateLoop(outs, i + 1, review_date)
             ELSE IF days = NULL THEN review_date
             ELSE review_date - days

ReviewDate(dates) == DateLoop(dates, 1, RunDay)

\* The texts a date element carries:
\*   '2 weeks ago'
\*   'il y a 3 semaines'
\*   '2 months ago'
\*   'il y a 3 mois'
\*   '2 years ago'
\*   'il y a 2 ans'
\*   '3 days ago'
\*   'il y a 2 jours'
\*   'Today'
\*   'a week ago'
\*   'an hour ago'
\*   '12 janvier'
DateTexts ==
    { <<202, 0, 23, 5, 5, 11, 19, 0, 1, 7, 15>>,
      <<9, 12, 0, 25, 0, 1, 0, 203, 0, 19, 5, 13, 1, 9, 14, 5, 19>>,
      <<202, 0, 13, 15, 14, 20, 8, 19, 0, 1, 7, 15>>,
      <<9, 12, 0, 25, 0, 1, 0, 203, 0, 13, 15, 9, 19>>,
      <<202, 0, 25, 5, 1, 18, 19, 0, 1, 7, 15>>,
      <<9, 12, 0, 25, 0, 1, 0, 202, 0, 1, 14, 19>>,
      <<203, 0, 4, 1, 25, 19, 0, 1, 7, 15>>,
      <<9, 12, 0, 25, 0, 1, 0, 202, 0, 10, 15, 21, 18, 19>>,
      <<120, 15, 4, 1, 25>>,
      <<1, 0, 23, 5, 5, 11, 0, 1, 7, 15>>,
      <<1, 14, 0, 8, 15, 21, 18, 0, 1, 7, 15>>,
      <<201, 202, 0, 10, 1, 14, 22, 9, 5, 18>> }

\* What the three date selectors find on a review node.
DateCascades ==
    {<<Found(t), NoMatch, NoMatch>> : t \in DateTexts}
        \cup { <<NoMatch, NoMatch, NoMatch>>,
               <<Found(BlankText), Raises, Found(<<0, 202, 0, 23, 5, 5, 11, 19, 0>>)>> }

\* What langdetect's detect does with a text: a language code, or it raises
\* LangDetectException.
Detects == {"fr", "raise"}

\* Sequential scraper: language = "unknown", replaced when detect succeeds.
LanguageSeq(review_text, det) ==
    IF review_text # <<>> /\ det # "raise" THEN det ELSE "unknown"

\* Pooled scraper: the key is set only "if review.get('text')".
LanguageJs(text, det) ==
    IF text = <<>> THEN "absent"
    ELSE IF det = "raise" THEN "unknown" ELSE det

\* The record get_reviews builds; the pooled scraper's record has no date.
PageReview(text, rating, date, language) ==
    [agency_name |-> agencies[1].name, text |-> text, rating |-> rating,
     date |-> date, language |-> language]

\* The review nodes of the page level: text and stars, stars only, text only,
\* neither.
PageNodes ==
    { GoodNode,
      [aria |-> RAISE, stars |-> 4, kv |-> RAISE,
       texts |-> <<NoMatch, NoMatch, NoMatch, NoMatch>>],
      [aria |-> RAISE, stars |-> 0, kv |-> RAISE,
       texts |-> <<NoMatch, Found(ShortText), NoMatch, Found(LongText)>>],
      [aria |-> RAISE, stars |-> 0, kv |-> RAISE,
       texts |-> <<NoMatch, NoMatch, NoMatch, NoMatch>>] }

\* A review node of the page level with what its date selectors find and what
\* the classifier does with its text.
NoDates == <<NoMatch, NoMatch, NoMatch>>

PlainNodes == {[node |-> n, dates |-> NoDates, det |-> d] : n \in PageNodes, d \in Detects}

DatedNodes == {[node |-> GoodNode, dates |-> c, det |-> "fr"] : c \in DateCascades}

\* The lists of review nodes a page shows, in page order: none, one node of
\* any kind, or several nodes without dates.
Pages ==
    {<<>>} \cup {<<n>> : n \in PlainNodes \cup DatedNodes}
           \cup UNION {[1..m -> PlainNodes] : m \in 2..MaxPageNodes}

\* The records one review node gives: none or one.
NodeRecords(n) ==
    IF IsSeq
    THEN LET review_text == ReviewTextSeq(n.node)
             rating == RatingSeq(n.node)
         IN  IF KeepReviewSeq(review_text, rating)
             THEN <<PageReview(review_text, rating, ReviewDate(n.dates),
                               LanguageSeq(review_text, n.det))>>
             ELSE <<>>
    ELSE LET text == ReviewTextJs(n.node)
             rating == RatingJs(n.node)
         IN  IF ScriptRaises(n.node) \/ SkipEmptyJs(text, rating)
             THEN <<>>
             ELSE <<PageReview(text, rating, NULL, LanguageJs(text, n.det))>>

\* The review containers are fetched (again, in the sequential scraper) once
\* the scrolling is over; the locals of the scroll loop are gone.
FindContainers ==
    /\ gr_pc = "extract"
    /\ containers' \in Pages
    /\ scrolls' = <<>>
    /\ expanded' = 0
    /\ gr_pc' = "nodes"
    /\ UNCHANGED <<max_reviews, searchvars, tried, activated, seen, gr_reviews,
                   runvars>>

\* One pass of the loop over review_containers[:max_reviews].
ExtractNode ==
    /\ gr_pc = "nodes" /\ Len(seen) < Len(Take(containers, max_reviews))
    /\ LET n == containers[Len(seen) + 1]
       IN  /\ seen' = Append(seen, n)
           /\ gr_reviews' = gr_reviews \o NodeRecords(n)
    /\ UNCHANGED <<gr_pc, max_reviews, searchvars, loadvars, containers, runvars>>

\* "return reviews"
ReturnReviews ==
    /\ gr_pc = "nodes" /\ Len(seen) = Len(Take(containers, max_reviews))
    /\ gr_pc' = "returned"
    /\ UNCHANGED <<max_reviews, searchvars, loadvars, nodevars, runvars>>

NextPage ==
    \/ SearchCandidate
    \/ SearchReturn
    \/ Activate
    \/ ScrollSeq
    \/ ScrollJs
    \/ ScrollEnd
    \/ FindContainers
    \/ ExtractNode
    \/ ReturnReviews

\* The values of --max_reviews of the page level.
PageMaxReviews == {-3, 0, 1, MaxReviewsSeq}

\* The calls of the page level: any target name, either scraper.
InitPage ==
    /\ InitWith({<<0>>, <<1>>, <<2>>}, {<<1>>}, {1}, {<<>>})
    /\ args.output = "json" /\ ~args.use_gpu
    /\ gr_pc = "search"
    /\ max_reviews \in PageMaxReviews
    /\ names = <<>>
    /\ agencies = <<>>
    /\ clicks = <<>>
    /\ view = "listing"
    /\ tried = 0
    /\ activated = FALSE
    /\ scrolls = <<>>
    /\ expanded = 0
    /\ containers = <<>>
    /\ seen = <<>>
    /\ gr_reviews = <<>>

SpecPage == InitPage /\ [][NextPage]_vars

(***************************************************************************)
(* Properties.                                                             *)
(***************************************************************************)
Elems(s) == {s[i] : i \in 1..Len(s)}

\* Every record the run holds or has written.
Materialized ==
    Elems(all_reviews)
        \cup UNION {Elems(result[t]) : t \in TaskIds}
        \cup UNION {Elems(files[p].data) : p \in Paths}

\* A node that has neither a text nor a rating for the scraper that runs.
BothEmpty(node) ==
    IF IsSeq
    THEN ReviewTextSeq(node) = <<>> /\ RatingSeq(node) = NULL
    ELSE ~ScriptRaises(node) /\ ReviewTextJs(node) = <<>> /\ RatingJs(node) = NULL

\* C1: every review record in the accumulated result set, in a unit's result
\* or in an output file (full or partial), of either scraper, has a non-empty
\* text or a non-null rating.
C1_TextOrRating ==
    \A r \in Materialized : r.text # <<>> \/ r.rating # NULL

\* C1, witness: a unit read an agency page whose node has neither text nor
\* rating, and finished without a record for it.
C1_Witness ==
    \E t \in TaskIds :
        /\ status[t] = "done" /\ visited[t] >= 1
        /\ Len(feed) = 1 /\ BothEmpty(feed[1])
        /\ result[t] = <<>>

\* C2: the rating of every materialized review record is null or an integer
\* in 1..5, whatever the rating sources return.
C2_RatingInDomain ==
    \A r \in Materialized : r.rating = NULL \/ r.rating \in 1..5

\* C3: in the pooled scraper no two units that run at the same time use the
\* same browser session.
C3_SessionExclusive ==
    \A t1, t2 \in Running : t1 # t2 => DriverOf(t1) # DriverOf(t2)

\* C4: once the interruption signal was delivered, no unit that had not
\* started begins to execute.
C4_NoStartAfterInterrupt == late = {}

\* A run that ended in the KeyboardInterrupt handler.
EndedInterrupted == pc = "done" /\ outcome = "interrupted"

\* C5: whenever a run is interrupted, the partial-output file is written and
\* holds every record of the units that had completed before the interruption.
C5_PartialHoldsCompleted ==
    EndedInterrupted =>
        /\ files[PartialTarget].st = "written"
        /\ \A t \in snapshot : Elems(result[t]) \subseteq Elems(files[PartialTarget].data)

OutputPaths == {"output", "output_json"}

\* C6 as stated: in a run that ends on the interruption path nothing is
\* written to the full-output path, whenever the interruption arrives, and
\* the partial-output file is never the target of a full-output write.
C6_NoFullWriteEver ==
    /\ EndedInterrupted => \A w \in writes : w[2] \notin OutputPaths
    /\ \A w \in writes : w[1] = "full" => w[2] # PartialTarget

\* The part of C6 the programs keep: when the interruption arrives before the
\* final save has opened the output file, nothing is written to the
\* full-output path; and the partial-output file is never the target of a
\* full-output write.
C6_NoFullWriteBeforeSave ==
    /\ (EndedInterrupted /\ interrupt # "dump") =>
           \A w \in writes : w[2] \notin OutputPaths
    /\ \A w \in writes : w[1] = "full" => w[2] # PartialTarget

\* A run interrupted while units were processed has ended with its
\* partial-output file written.
InterruptedWithPartial ==
    /\ EndedInterrupted
    /\ interrupt \in {"units", "submit", "collect"}
    /\ files[PartialTarget].st = "written"
    /\ files[PartialTarget].data # <<>>

RECURSIVE ConcatResults(_, _)
ConcatResults(t, skip) ==
    IF t >= NumTasks THEN <<>>
    ELSE (IF t \in skip THEN <<>> ELSE result[t]) \o ConcatResults(t + 1, skip)

\* What the run hands on: the file main wrote (sequential), the list run()
\* returns (pooled).
FinalResult ==
    IF IsPool THEN all_reviews
    ELSE IF files["output"].st = "written" THEN files["output"].data
    ELSE <<>>

\* C7: an error raised in one unit never keeps another unit from being
\* processed, and the final result set holds exactly the records of the units
\* that did not fail (runs with a valid output path that were not interrupted
\* and either completed or had a unit fail).
C7_ErrorsIsolated ==
    (/\ pc = "done" /\ interrupt = "none"
     /\ args.output \in {"json", "csv"}
     /\ outcome = "completed" \/ failed # {}) =>
        /\ \A t \in TaskIds : status[t] = "done" \/ t \in failed
        /\ FinalResult = ConcatResults(0, failed)

\* C8: every browser session that was opened is closed when the run has
\* terminated, on every terminating path.
C8_SessionsClosed == pc = "done" => opened \subseteq closed

\* An output path that is neither .json nor .csv, or an empty bank list.
ConfigError == args.output = "other" \/ args.bank_names = <<0>>

\* C9: a configuration error ends the run before any session is opened and
\* before any target is searched.
C9_ConfigErrorBeforeWork ==
    ConfigError => opened = {} /\ \A t \in TaskIds : status[t] = "new"

\* C10: in the pooled scraper, with no session the run fails before any unit
\* is dispatched, and with m sessions at most m units run at the same time.
C10_ConcurrencyWithinSessions ==
    (IsPool /\ pc # "setup") =>
        /\ drivers = <<>> => \A t \in TaskIds : status[t] = "new"
        /\ Cardinality(Running) <= Len(drivers)

\* C11: a run that processed all its units, was not interrupted, has a valid
\* output path and ran to its end has written the accumulated result set to
\* the full-output path, also when that set is empty, and the file holds
\* exactly the accumulated records.
C11_FullOutputWritten ==
    (/\ pc = "done" /\ outcome = "completed" /\ interrupt = "none"
     /\ ~ConfigError
     /\ \A t \in TaskIds : status[t] = "done") =>
        files["output"] = Written(all_reviews)

\* The review feed grew in each of the first n scroll passes and in no later
\* one, and a pass without growth was made.
StopsGrowingAfter(n) ==
    /\ Len(scrolls) > n
    /\ \A j \in 1..Len(scrolls) : scrolls[j] <=> (j <= n)

\* C12: when the review feed stops growing after n scroll passes, n below the
\* maximum number of passes, the scroll loop of get_reviews ends after n + 1
\* passes.
C12_ScrollStopsWhenStable ==
    (gr_pc \in {"extract", "returned"} /\ scrolls # <<>>) =>
        \A n \in 0..(ScrollPasses - 1) :
            StopsGrowingAfter(n) => Len(scrolls) = n + 1

\* The value of the first selector, in declared order, that finds an element
\* with a non-blank text, stripped; the empty string when there is none.
FirstNonEmpty(outs) ==
    LET S == {i \in 1..Len(outs) :
                 outs[i].kind = "text" /\ Strip(outs[i].val) # <<>>}
    IN  IF S = {} THEN <<>>
        ELSE Strip(outs[CHOOSE i \in S : \A j \in S : i <= j].val)

\* The words of a text: its maximal runs of characters other than the space.
RECURSIVE Words(_, _, _)
Words(s, i, word) ==
    IF i > Len(s) THEN (IF word = <<>> THEN <<>> ELSE <<word>>)
    ELSE IF s[i] = 0
         THEN (IF word = <<>> THEN <<>> ELSE <<word>>) \o Words(s, i + 1, <<>>)
    ELSE Words(s, i + 1, Append(word, s[i]))

\* The days one unit of a relative phrase stands for: week(s), semaine(s) 7;
\* month(s), mois 30; year(s), an(s) 365; day(s), jour(s) 1; 0 for any other
\* word.
UnitDays(w) ==
    IF w \in {Week, Append(Week, 19), Semaine, Append(Semaine, 19)} THEN 7
    ELSE IF w \in {Month, Append(Month, 19), Mois} THEN 30
    ELSE IF w \in {Year, Append(Year, 19), An, Append(An, 19)} THEN 365
    ELSE IF w \in {Day, Append(Day, 19), Jour, Append(Jour, 19)} THEN 1
    ELSE 0

\* The date a date text stands for: the run day minus N units when the text
\* carries a number N and a unit word, the run day otherwise.
ExpectedDate(date_text) ==
    LET ws == Words(LowerStr(date_text), 1, <<>>)
        U == {i \in 1..Len(ws) : UnitDays(ws[i]) > 0}
        n == FirstNumber(date_text)
    IN  IF U # {} /\ n # RAISE
        THEN RunDay - UnitDays(ws[CHOOSE i \in U : \A j \in U : i <= j]) * n
        ELSE RunDay

\* C13: the date of a record of the sequential scraper is the run day minus
\* 7N, 30N, 365N or N days for a date text with N weeks, months, years or
\* days, and the run day for "today" and for any text in which no relative
\* phrase is recognized.
C13_RelativeDate ==
    (IsSeq /\ gr_pc = "returned" /\ Len(seen) = 1 /\ gr_reviews # <<>>) =>
        gr_reviews[1].date = ExpectedDate(FirstNonEmpty(seen[1].dates))

\* The records a list of review nodes stands for when the text of each is the
\* value of the first selector with a non-empty text and no node is given up
\* (but for the nodes on which the page script of the pooled scraper raises).
RECURSIVE ExpectedRecords(_, _)
ExpectedRecords(nodes, unit) ==
    IF nodes = <<>> THEN <<>>
    ELSE LET node == Head(nodes)
             text == FirstNonEmpty(node.texts)
             rating == IF IsSeq THEN RatingSeq(node) ELSE RatingJs(node)
             keep == /\ text # <<>> \/ Truthy(rating)
                     /\ IsPool => ~ScriptRaises(node)
         IN  (IF keep THEN <<Review(unit, text, rating)>> ELSE <<>>)
                 \o ExpectedRecords(Tail(nodes), unit)

NameMatches(name) ==
    LET low == LowerStr(name)
    IN  \/ Contains(LowerStr(bank_name), low)
        \/ \E w \in {Keywords[i] : i \in 1..Len(Keywords)} : Contains(w, low)

\* The names of the search results that have a name matching the test, in
\* their order.
RECURSIVE MatchingNames(_)
MatchingNames(cands) ==
    IF cands = <<>> THEN <<>>
    ELSE LET c == Head(cands)
         IN  (IF c.present /\ c.name.kind = "text" /\ NameMatches(c.name.val)
              THEN <<c.name.val>> ELSE <<>>)
                 \o MatchingNames(Tail(cands))

\* C15: every agency search_bank_agencies returns has a name that contains,
\* case-insensitively, the bank name or one of bank, banque, atm, agence; a
\* search result whose name fails the test is not recorded, its detail page is
\* not opened, and the results after it are still looked at.
C15_OnlyBankAgencies ==
    /\ \A i \in 1..Len(agencies) : NameMatches(agencies[i].name)
    /\ gr_pc = "search" =>
          /\ clicks = MatchingNames(names)
          /\ \A i \in 1..Len(agencies) : agencies[i].name \in Elems(clicks)

\* C15, witness: the first search result had a name that fails the test, the
\* second one a name that passes it, and only the second was opened and
\* recorded.
C15_Witness ==
    /\ gr_pc = "search" /\ Len(names) = 2
    /\ names[1].name.kind = "text" /\ ~NameMatches(names[1].name.val)
    /\ names[2].name.kind = "text" /\ NameMatches(names[2].name.val)
    /\ clicks = <<names[2].name.val>>
    /\ Len(agencies) = 1 /\ agencies[1].name = names[2].name.val

\* --max_reviews of the scraper that runs.
MaxReviews == IF IsSeq THEN MaxReviewsSeq ELSE MaxReviewsPool

\* One record for each review node with a text or a rating, among the first
\* max_reviews nodes of each agency page read, for the units from t on.
RECURSIVE ExpectedOutput(_)
ExpectedOutput(t) ==
    IF t >= NumTasks THEN <<>>
    ELSE Repeat(ExpectedRecords(Take(feed, MaxReviews), Task(t)), visited[t])
             \o ExpectedOutput(t + 1)

\* C16: in a run where no step fails, the output holds exactly one record for
\* each review node, among the first max_reviews nodes of each agency of each
\* target, that has a text or a rating, and no other record.
C16_OneRecordPerNode ==
    (/\ pc = "done" /\ outcome = "completed" /\ interrupt = "none"
     /\ failed = {} /\ ~ConfigError
     /\ \A i \in 1..Len(feed) : ~ScriptRaises(feed[i])) =>
        FinalResult = ExpectedOutput(0)

\* C17: the exit status of an interrupted run differs from that of a
\* completed run and from that of a failed run, and a run with a
\* configuration error exits with a non-zero status.
C17_ExitStatusDistinguishes ==
    pc = "done" =>
        /\ outcome = "interrupted" =>
              ExitStatus(outcome) \notin {ExitStatus("completed"), ExitStatus("error")}
        /\ (ConfigError /\ outcome \in {"completed", "unsupported_format"}) =>
              ExitStatus(outcome) # 0

\* C18: applying the post-processing of the pooled scraper to a record set it
\* has processed returns the same record set, every field value unchanged.
C18_PostProcessIdempotent ==
    [][(pc = "post" /\ pc' = "save" /\ all_reviews' = PostProcess(all_reviews))
          => PostProcess(all_reviews') = all_reviews']_vars

\* C18, witness: the dataframe processing has run on a record with a text of
\* more than 5 characters and no rating; the record is kept and its rating
\* reads NaN.
C18_Witness ==
    /\ IsPool /\ args.use_gpu /\ pc = "save"
    /\ all_reviews # <<>>
    /\ \E i \in 1..Len(all_reviews) : all_reviews[i].rating = NaN
    /\ GpuProcess(all_reviews) = all_reviews

\* C19: every record get_reviews builds carries a language: the classifier's
\* code when the text is not empty and the classifier succeeds, "unknown"
\* when the text is empty or the classifier fails; in both scrapers.
C19_LanguageAlwaysSet ==
    (gr_pc = "returned" /\ Len(seen) = 1 /\ gr_reviews # <<>>) =>
        gr_reviews[1].language =
            IF gr_reviews[1].text # <<>> /\ seen[1].det # "raise"
            THEN seen[1].det ELSE "unknown"

\* How many times unit t was handed to search_bank_agencies / get_reviews:
\* the loops of main and the submit loop of run() go over each pair once, and
\* a unit that was started is never started again.
Dispatches(t) == IF status[t] # "new" \/ t \in failed THEN 1 ELSE 0

\* C20: in a run that is not interrupted (and whose sessions were set up),
\* each pair of the product of the bank list and the city list is dispatched
\* exactly once.
C20_DispatchedExactlyOnce ==
    (pc = "done" /\ interrupt = "none"
        /\ outcome \notin {"setup_failed", "killed"}) =>
        \A t \in TaskIds : Dispatches(t) = 1

\* How many times record r occurs in the list s.
Count(s, r) == Cardinality({i \in 1..Len(s) : s[i] = r})

\* The results of all units, in the order of submission.
AllResults == ConcatResults(0, {})

\* C21: in the pooled scraper the accumulated result set only grows while the
\* units run and are collected, and once every unit has finished and been
\* collected it holds each record each unit returned exactly once.
C21_AppendOnlyExactlyOnce ==
    /\ [](IsPool /\ pc = "post" =>
            \A r \in Elems(all_reviews) \cup Elems(AllResults) :
                Count(all_reviews, r) = Count(AllResults, r))
    /\ [][IsPool /\ pc \in {"submit", "collect", "shutdown"} =>
            /\ Len(all_reviews') >= Len(all_reviews)
            /\ SubSeq(all_reviews', 1, Len(all_reviews)) = all_reviews]_vars

\* C21, witness: two units ran on two workers, both returned a record, and
\* both results were collected.
C21_Witness ==
    /\ IsPool /\ pc = "post"
    /\ NumTasks = 2 /\ args.max_workers = 2 /\ Len(drivers) = 2
    /\ \A t \in TaskIds : result[t] # <<>>
    /\ Len(all_reviews) = Len(result[0]) + Len(result[1])

\* C30: in the pooled scraper the accumulated result set is the concatenation
\* of the units' results in the order of submission, whatever the order in
\* which the worker threads finish.
C30_SubmissionOrder ==
    (IsPool /\ pc = "post") => all_reviews = AllResults

\* C30, witness: the second unit submitted finished before the first, both
\* returned records, and the results were collected.
C30_Witness ==
    /\ IsPool /\ pc = "post"
    /\ finished = <<1, 0>>
    /\ result[0] # <<>> /\ result[1] # <<>>
    /\ all_reviews = result[0] \o result[1]

\* The values of max_reviews the arithmetic of the scroll loop is checked for
\* are -ProbeReviews..ProbeReviews.
ProbeReviews == 100

C23_ErrorSkipsOneCandidate ==
    [][gr_pc = "search" =>
          /\ gr_pc' = "search" =>
                /\ Len(names') = Len(names) + 1
                /\ Len(agencies') >= Len(agencies)
                /\ SubSeq(agencies', 1, Len(agencies)) = agencies
          /\ gr_pc' # "search" => Len(names) = max_agencies]_vars

\* C23, witness: the first result was recorded, the reading of the URL failed
\* for the second one, and the first is still recorded when the loop is over.
C23_Witness ==
    /\ gr_pc = "search" /\ Len(names) = 2 /\ max_agencies = 2
    /\ names[1].steps = StepsOk
    /\ names[2].steps.url = "error"
    /\ Len(agencies) = 1 /\ agencies[1].name = names[1].name.val

\* C24: whenever search_bank_agencies is about to process a search result
\* (or to return), the session shows the listing.
C24_BackOnListing == gr_pc = "search" => view = "listing"

\* C25: in get_reviews a later activation method runs whenever the earlier
\* ones did not open the reviews section, and when no method opened it the
\* call returns the empty list.
C25_ActivationFallsThrough ==
    /\ (gr_pc \in {"scroll", "extract", "nodes", "returned"} /\ tried > 0) =>
          activated \/ tried = Methods
    /\ (gr_pc = "returned" /\ tried > 0 /\ ~activated) => gr_reviews = <<>>

\* C26: for max_reviews >= 0, get_reviews returns at most max_reviews records,
\* and they come from the first max_reviews review nodes in page order.
C26_AtMostMaxReviews ==
    (gr_pc = "returned" /\ tried > 0 /\ max_reviews >= 0) =>
        /\ Len(gr_reviews) <= max_reviews
        /\ Len(seen) <= max_reviews
        /\ seen = SubSeq(containers, 1, Len(seen))
        /\ Len(seen) < max_reviews => seen = containers
        /\ Len(gr_reviews) <= Len(seen)

\* C26, witness: the page showed two review nodes, max_reviews was 1, and the
\* one record returned is that of the first node.
C26_Witness ==
    /\ gr_pc = "returned" /\ max_reviews = 1
    /\ Len(containers) = 2 /\ containers[1] # containers[2]
    /\ seen = <<containers[1]>>
    /\ Len(gr_reviews) = 1

\* C27: the dataframe processing of run() gives the records that run()
\* keeps without it: the same records with the same field values.
C27_PathsAgree ==
    (IsPool /\ pc = "post" /\ all_reviews # <<>>) =>
        GpuProcess(all_reviews) = all_reviews

\* The location the location selectors of a search result stand for: the
\* text of the first one, in declared order, with a non-empty text, and
\* "<city>, Morocco" when there is none.
ExpectedLocation(locs) ==
    IF FirstNonEmpty(locs) = <<>> THEN DefaultLocation ELSE FirstNonEmpty(locs)

\* C28: the location of an agency search_bank_agencies records is the text
\* of the first location selector with a non-empty text, the default when
\* there is none, and never empty.
C28_LocationResolved ==
    /\ [](\A i \in 1..Len(agencies) : agencies[i].location # <<>>)
    /\ [][(gr_pc = "search" /\ gr_pc' = "search"
              /\ Len(agencies') > Len(agencies)) =>
           agencies'[Len(agencies')].location
               = ExpectedLocation(names'[Len(names')].locs)]_vars

\* C29: in the sequential scraper one search result adds at most one agency
\* to the list search_bank_agencies returns.
C29_AppendedAtMostOnce ==
    [][(IsSeq /\ gr_pc = "search") => Len(agencies') <= Len(agencies) + 1]_vars
====
